---- MODULE Spec2Model ----
(***************************************************************************)
(* A model of goto, an X11 task switcher (src/src/main.rs).                *)
(*                                                                         *)
(* The task registry (struct TaskList) is a vector of tasks plus an        *)
(* optional selection index.  Its methods are modelled as operators over   *)
(* a record [tasks, selected], computed the way the code computes them.    *)
(* The specifications:                                                     *)
(*   SpecOps    any finite sequence of TaskList method calls on a registry *)
(*              that starts empty (TaskList::new);                         *)
(*   Spec       the event loop of main, one action per event handler;      *)
(*   SpecIcons  the methods of IconCache on a registry that diff_update    *)
(*              changes;                                                   *)
(*   SpecLayout the geometry functions applied to any input;               *)
(*   SpecDraw   draw_icon and blit_frame applied to any icon;              *)
(*   SpecTitle  update_title applied to any registry;                      *)
(*   SpecText   the text renderer on any fonts and texts;                  *)
(*   SpecToggle the key handlers of main on any registry;                  *)
(*   SpecCache  the handlers of main that track windows and fill the icon  *)
(*              cache, on windows of any class pair.                       *)
(* Indices are 0-based as in the code; tasks[i + 1] is the task at index i.*)
(***************************************************************************)
EXTENDS Integers, Sequences, FiniteSets, TLC

\* ---- bounds ----
MaxWid == 3
MaxList == 3
MaxTitle == 2
MaxLoopWid == 2
MaxTasks == 3
MaxClass == 2
MaxBitmap == 2
MaxIcon == 2
MaxFont == 2
MaxText == 2

RECURSIVE Factorial(_)
Factorial(n) == IF n <= 1 THEN 1 ELSE n * Factorial(n - 1)

Wids == 1..MaxWid
Titles == 1..MaxTitle
\* Spec multiplies the registry by the mapped flag and the dirty flags, so it
\* runs on fewer windows; no handler reads a title, so there it is one value.
LoopWids == 1..MaxLoopWid
LoopTitles == {1}
\* class pairs (instance, class) of windows; no method of TaskList reads the
\* class, so SpecOps and Spec run on one class pair
Classes == 1..MaxClass
LoopClasses == {1}
\* icon bitmaps that a source can deliver
Bitmaps == 1..MaxBitmap

\* Option::None of `selected: Option<usize>`; Some(i) is the index i >= 0.
None == -1
\* the server's answer for a window that window_to_task turns into None
NoTask == <<>>
\* Frame::new(0, 0), the icon stored when no source delivers one
EmptyIcon == 0
\* get_active_window returned Ok(None); a field of `last` that carries no window.
NoWid == 0

VARIABLES tasks, selected, icons, is_mapped, title_changed, icons_changed,
          size_changed, focus_changed, window_changed, pc, last,
          geometry, main_frame, tr, tr_log

regvars == <<tasks, selected>>
flagvars == <<title_changed, icons_changed, size_changed, focus_changed, window_changed>>
\* what main draws with: the geometry of the window, the size of the frame
\* (`frame` in main), the text renderer, and the log of the calls the
\* renderer's cache has made
drawvars == <<geometry, main_frame, tr, tr_log>>
vars == <<tasks, selected, icons, is_mapped, title_changed, icons_changed,
          size_changed, focus_changed, window_changed, pc, last,
          geometry, main_frame, tr, tr_log>>

\* ---- helpers ----
Min(a, b) == IF a <= b THEN a ELSE b
Range(s) == {s[i] : i \in 1..Len(s)}
SeqsUpTo(S, n) == UNION {[1..k -> S] : k \in 0..n}
WidsOf(ts) == {ts[i].wid : i \in 1..Len(ts)}
WidSeq(ts) == [i \in 1..Len(ts) |-> ts[i].wid]

\* ---- struct TaskList ----
TaskList(ts, sel) == [tasks |-> ts, selected |-> sel]
new == TaskList(<<>>, None)
len(tl) == Len(tl.tasks)
is_empty(tl) == tl.tasks = <<>>
contains(tl, wid) == \E i \in 1..Len(tl.tasks) : tl.tasks[i].wid = wid
\* self.len().checked_sub(1)
last_index(tl) == IF len(tl) >= 1 THEN len(tl) - 1 ELSE None
\* self.tasks.iter().position(|task| task.wid == wid)
position(tl, wid) ==
    IF contains(tl, wid)
    THEN (CHOOSE i \in 1..Len(tl.tasks) :
             /\ tl.tasks[i].wid = wid
             /\ \A j \in 1..(i - 1) : tl.tasks[j].wid # wid) - 1
    ELSE None

\* self.tasks.iter().find(|task| task.wid == wid), a sequence of zero or one task
get_task_by_id(tl, wid) ==
    LET idx == position(tl, wid) IN
    IF idx = None THEN <<>> ELSE <<tl.tasks[idx + 1]>>

\* update_title that retitles every task once the window is tracked
update_title_every(tl, wid, title) ==
    IF position(tl, wid) = None THEN tl
    ELSE [tl EXCEPT !.tasks = [i \in 1..Len(tl.tasks) |->
                                  [tl.tasks[i] EXCEPT !.title = title]]]

update_title(tl, wid, title) ==
    LET idx == position(tl, wid) IN
    IF idx = None THEN tl
    ELSE [tl EXCEPT !.tasks[idx + 1].title = title]

\* track without the test for an already tracked window
track_unchecked(tl, task) == [tl EXCEPT !.tasks = Append(@, task)]

track(tl, task) ==
    IF ~contains(tl, task.wid)
    THEN [tl EXCEPT !.tasks = Append(@, task)]
    ELSE tl

\* untrack that leaves the selection index as it was
untrack_no_clamp(tl, wid) ==
    TaskList(SelectSeq(tl.tasks, LAMBDA t : t.wid # wid), tl.selected)

untrack(tl, wid) ==
    LET kept == SelectSeq(tl.tasks, LAMBDA t : t.wid # wid)
        sel == tl.selected
    IN  TaskList(kept,
                 IF sel # None
                 THEN IF Len(kept) >= 1 THEN Min(sel, Len(kept) - 1) ELSE None
                 ELSE None)

RECURSIVE untrack_all(_, _)
untrack_all(tl, old_wids) ==
    IF old_wids = <<>> THEN tl
    ELSE untrack_all(untrack(tl, Head(old_wids)), Tail(old_wids))

\* window_to_task under the server's answers `intro`: intro[wid] = NoTask when
\* the window is override-redirect or its title or class cannot be read,
\* otherwise the pair <<title, class>> read for it.  The Option<Task> is a
\* sequence of zero or one task.
window_to_task(intro, wid) ==
    IF intro[wid] = NoTask THEN <<>>
    ELSE <<[wid |-> wid, title |-> intro[wid][1], class |-> intro[wid][2]]>>

RECURSIVE track_all(_, _, _)
track_all(tl, new_wids, intro) ==
    IF new_wids = <<>> THEN tl
    ELSE LET task == window_to_task(intro, Head(new_wids)) IN
         track_all(IF task = <<>> THEN tl ELSE track(tl, task[1]),
                   Tail(new_wids), intro)

\* the first half of diff_update with the test of its filter inverted
diff_untracked_inverted(tl, wids) ==
    LET old_wids == SelectSeq(WidSeq(tl.tasks), LAMBDA w : w \in Range(wids))
    IN  untrack_all(tl, old_wids)

\* the registry after the first half of diff_update (untrack windows not in wids)
diff_untracked(tl, wids) ==
    LET old_wids == SelectSeq(WidSeq(tl.tasks), LAMBDA w : w \notin Range(wids))
    IN  untrack_all(tl, old_wids)

\* diff_update without its first half: no window is untracked
diff_update_no_untrack(tl, wids, intro) ==
    track_all(tl, SelectSeq(wids, LAMBDA w : ~contains(tl, w)), intro)

diff_update(tl, wids, intro) ==
    LET tl1 == diff_untracked(tl, wids)
        new_wids == SelectSeq(wids, LAMBDA w : ~contains(tl1, w))
    IN  track_all(tl1, new_wids, intro)

\* select_newer that enters at the first task when nothing is selected
select_newer_from_first(tl) ==
    IF ~is_empty(tl)
    THEN IF tl.selected # None
         THEN [tl EXCEPT !.selected = (tl.selected + 1) % len(tl)]
         ELSE [tl EXCEPT !.selected = 0]
    ELSE tl

select_newer(tl) ==
    IF ~is_empty(tl)
    THEN IF tl.selected # None
         THEN [tl EXCEPT !.selected = (tl.selected + 1) % len(tl)]
         ELSE [tl EXCEPT !.selected = last_index(tl)]
    ELSE tl

\* select_older with a saturating instead of a wrapping step
select_older_saturating(tl) ==
    IF ~is_empty(tl)
    THEN IF tl.selected # None
         THEN [tl EXCEPT !.selected = IF tl.selected >= 1 THEN tl.selected - 1 ELSE 0]
         ELSE [tl EXCEPT !.selected = last_index(tl)]
    ELSE tl

select_older(tl) ==
    IF ~is_empty(tl)
    THEN IF tl.selected # None
         THEN [tl EXCEPT !.selected =
                  IF tl.selected >= 1 THEN tl.selected - 1 ELSE last_index(tl)]
         ELSE [tl EXCEPT !.selected = last_index(tl)]
    ELSE tl

\* select_end that leaves the selection where it is
select_end_keep(tl) == tl

select_end(tl) ==
    IF ~is_empty(tl) THEN [tl EXCEPT !.selected = last_index(tl)] ELSE tl

\* focus_by_index with swap_remove: the last task takes the place of the
\* removed one
focus_by_index_swap(tl, idx) ==
    IF idx < len(tl)
    THEN LET task == tl.tasks[idx + 1]
             swapped == [j \in 1..(len(tl) - 1) |->
                            IF j = idx + 1 THEN tl.tasks[len(tl)] ELSE tl.tasks[j]]
         IN  select_end([tl EXCEPT !.tasks = Append(swapped, task)])
    ELSE tl

focus_by_index(tl, idx) ==
    IF idx < len(tl)
    THEN LET task == tl.tasks[idx + 1]
             removed == SubSeq(tl.tasks, 1, idx) \o SubSeq(tl.tasks, idx + 2, len(tl))
         IN  select_end([tl EXCEPT !.tasks = Append(removed, task)])
    ELSE tl

\* focus_by_selection that moves the task and leaves the index where it was
focus_by_selection_stale(tl) ==
    IF tl.selected # None
    THEN [focus_by_index(tl, tl.selected) EXCEPT !.selected = tl.selected]
    ELSE tl

focus_by_selection(tl) ==
    IF tl.selected # None THEN focus_by_index(tl, tl.selected) ELSE tl

\* focus_by_wid that selects the task where it stands
focus_by_wid_in_place(tl, wid) ==
    LET idx == position(tl, wid) IN
    IF idx # None THEN [tl EXCEPT !.selected = idx] ELSE tl

focus_by_wid(tl, wid) ==
    LET idx == position(tl, wid) IN
    IF idx # None THEN focus_by_index(tl, idx) ELSE tl

unfocus(tl) == [tl EXCEPT !.selected = None]

\* tasks.selected() that answers with the newest task
selected_wid_newest(tl) == IF ~is_empty(tl) THEN tl.tasks[len(tl)].wid ELSE NoWid

\* tasks.selected(): the wid of the selected task, NoWid when nothing is selected
selected_wid(tl) == IF tl.selected # None THEN tl.tasks[tl.selected + 1].wid ELSE NoWid

\* the views: a pair of the tasks in the order of the view and the index of
\* the selected task in that order
Reverse(s) == [i \in 1..Len(s) |-> s[Len(s) - i + 1]]
list_ascending(tl) == <<tl.tasks, tl.selected>>
\* list_descending that hands out the stored index
list_descending_stored(tl) == <<Reverse(tl.tasks), tl.selected>>
list_descending(tl) ==
    <<Reverse(tl.tasks),
      IF tl.selected # None THEN len(tl) - 1 - tl.selected ELSE None>>

\* ---- struct IconCache ----
\* The map `icons` as a function of the class pair: None where the map has
\* no entry, otherwise the bitmap stored (EmptyIcon or one of Bitmaps).
IconCache_new == [c \in Classes |-> None]

\* What the sources answer when refresh asks them about one window:
\* net is the bitmap of get_net_wm_icon, hicolor that of get_hicolor_icon
\* (None for Err), parent the class pair of the task that window_to_task
\* makes of the window get_window_parent names (None when there is no such
\* window or no such task).
NoAnswer == [net |-> None, hicolor |-> None, parent |-> None]
IconAnswers == [net : {None} \cup Bitmaps, hicolor : {None} \cup Bitmaps,
                parent : {None} \cup Classes]
\* the answers in which no source after the first that succeeds is set
FirstAnswers ==
    {a \in IconAnswers : /\ a.net # None => (a.hicolor = None /\ a.parent = None)
                         /\ a.hicolor # None => a.parent = None}

\* refresh that looks into the theme directory before it asks the window
refresh_theme_first(ic, task, a) ==
    IF a.hicolor # None
    THEN [icons |-> [ic EXCEPT ![task.class] = a.hicolor], tried |-> <<"hicolor">>]
    ELSE IF a.net # None
    THEN [icons |-> [ic EXCEPT ![task.class] = a.net],
          tried |-> <<"hicolor", "net_wm_icon">>]
    ELSE IF a.parent # None /\ ic[a.parent] # None
    THEN [icons |-> [ic EXCEPT ![task.class] = ic[a.parent]],
          tried |-> <<"hicolor", "net_wm_icon", "parent">>]
    ELSE [icons |-> [ic EXCEPT ![task.class] = EmptyIcon],
          tried |-> <<"hicolor", "net_wm_icon", "parent">>]

\* IconCache::refresh: the map it leaves and the sources it has called, in
\* the order of the calls
refresh(ic, task, a) ==
    IF a.net # None
    THEN [icons |-> [ic EXCEPT ![task.class] = a.net], tried |-> <<"net_wm_icon">>]
    ELSE IF a.hicolor # None
    THEN [icons |-> [ic EXCEPT ![task.class] = a.hicolor],
          tried |-> <<"net_wm_icon", "hicolor">>]
    ELSE IF a.parent # None /\ ic[a.parent] # None
    THEN [icons |-> [ic EXCEPT ![task.class] = ic[a.parent]],
          tried |-> <<"net_wm_icon", "hicolor", "parent">>]
    ELSE [icons |-> [ic EXCEPT ![task.class] = EmptyIcon],
          tried |-> <<"net_wm_icon", "hicolor", "parent">>]

\* the loop of IconCache::cache over the tasks ts; c is the map so far and
\* the windows refresh was called for, ans the answers by window
RECURSIVE cache_tasks(_, _, _)
cache_tasks(c, ts, ans) ==
    IF ts = <<>> THEN c
    ELSE LET task == Head(ts) IN
         cache_tasks(IF c.icons[task.class] = None
                     THEN [icons |-> refresh(c.icons, task, ans[task.wid]).icons,
                           resolved |-> Append(c.resolved, task.wid)]
                     ELSE c,
                     Tail(ts), ans)

RECURSIVE refresh_tasks(_, _, _)
refresh_tasks(c, ts, ans) ==
    IF ts = <<>> THEN c
    ELSE LET task == Head(ts) IN
         refresh_tasks([icons |-> refresh(c.icons, task, ans[task.wid]).icons,
                        resolved |-> Append(c.resolved, task.wid)],
                       Tail(ts), ans)

\* cache without its contains_key test: every task is refreshed
cache_every_task(ic, tl, ans) ==
    refresh_tasks([icons |-> ic, resolved |-> <<>>], list_ascending(tl)[1], ans)

\* cache that stops after the first task of the list
cache_first_task(ic, tl, ans) ==
    cache_tasks([icons |-> ic, resolved |-> <<>>],
                SubSeq(list_ascending(tl)[1], 1, Min(1, len(tl))), ans)

cache(ic, tl, ans) ==
    cache_tasks([icons |-> ic, resolved |-> <<>>], list_ascending(tl)[1], ans)

\* IconCache::get; None stands for the panic of unwrap on a missing entry
get(ic, task) == ic[task.class]

\* ---- layout: the geometry of the overlay ----
\* The code computes in f32.  Here a length is an integer number of 1/Unit
\* pixels, Unit being a multiple of 4, of 5 and of every task count, so that
\* the divisions by 2 and by the task count and the factors 0.2 and 0.4 of
\* the code are exact; the rounding of f32 is left out.
Unit == 20 * Factorial(MaxTasks)
Px(n) == n * Unit

\* enum Size; Relative(num, den) is the factor num / den
Absolute(n) == [kind |-> "Absolute", n |-> n, num |-> 0, den |-> 1]
Relative(num, den) == [kind |-> "Relative", n |-> 0, num |-> num, den |-> den]
Size_resolve(size, dim) ==
    IF size.kind = "Absolute" THEN Px(size.n) ELSE (size.num * dim) \div size.den

WindowLocations == {"NorthWest", "North", "NorthEast", "West", "Center", "East",
                    "SouthWest", "South", "SouthEast"}

\* WindowLocation::resolve: the origin of a rectangle a = <<aw, ah>> on a
\* screen b = <<bw, bh>>
WindowLocation_resolve(loc, a, b) ==
    LET aw == a[1]
        ah == a[2]
        bw == b[1]
        bh == b[2]
        half_aw == aw \div 2
        half_ah == ah \div 2
        half_bw == bw \div 2
        half_bh == bh \div 2
    IN  CASE loc = "NorthWest" -> <<0, 0>>
          [] loc = "North"     -> <<half_bw - half_aw, 0>>
          [] loc = "NorthEast" -> <<bw - aw, 0>>
          [] loc = "West"      -> <<0, half_bh - ah>>
          [] loc = "Center"    -> <<half_bw - half_aw, half_bh - half_ah>>
          [] loc = "East"      -> <<bw - aw, half_bh - ah>>
          [] loc = "SouthWest" -> <<0, bh - ah>>
          [] loc = "South"     -> <<half_bw - half_aw, bh - ah>>
          [] loc = "SouthEast" -> <<bw - aw, bh - ah>>

\* the fields of Config that the geometry reads, with the defaults of
\* Config::new for width and height
Config(layout, location, border_width, task_height, task_width, screen) ==
    [layout |-> layout, location |-> location, border_width |-> Px(border_width),
     task_height |-> task_height, task_width |-> task_width,
     width |-> Size_resolve(Relative(2, 5), Px(screen.width_in_pixels)),
     height |-> Size_resolve(Relative(1, 5), Px(screen.width_in_pixels))]

compute_task_size(conf, screen_size, task_size, n) ==
    LET bw == conf.border_width * 2
        screen_size1 == screen_size - bw
        task_size1 == Size_resolve(task_size, screen_size1)
        content_h == task_size1 * n + bw
    IN  IF content_h <= screen_size1
        THEN task_size1
        ELSE (screen_size1 - bw) \div n

\* Option<Area> as a sequence of zero or one area
Area(x, y, w, h) == [x |-> x, y |-> y, w |-> w, h |-> h]

compute_window_geometry_row(conf, screen, n) ==
    IF n = 0 THEN <<>>
    ELSE LET screen_size == Px(screen.height_in_pixels)
             task_h == compute_task_size(conf, screen_size, conf.task_height, n)
             w == conf.width
             h == task_h * n
             screen_w == Px(screen.width_in_pixels)
             screen_h == Px(screen.height_in_pixels)
             xy == WindowLocation_resolve(conf.location, <<w, h>>, <<screen_w, screen_h>>)
         IN  IF w <= 0 \/ h <= 0 THEN <<>> ELSE <<Area(xy[1], xy[2], w, h)>>

compute_window_geometry_col(conf, screen, n) ==
    IF n = 0 THEN <<>>
    ELSE LET screen_size == Px(screen.width_in_pixels)
             task_size == compute_task_size(conf, screen_size, conf.task_width, n)
             w == task_size * n
             h == conf.height
             screen_w == Px(screen.width_in_pixels)
             screen_h == Px(screen.height_in_pixels)
             xy == WindowLocation_resolve(conf.location, <<w, h>>, <<screen_w, screen_h>>)
         IN  IF w <= 0 \/ h <= 0 THEN <<>> ELSE <<Area(xy[1], xy[2], w, h)>>

compute_window_geometry(conf, screen, n) ==
    IF conf.layout = "Rows"
    THEN compute_window_geometry_row(conf, screen, n)
    ELSE compute_window_geometry_col(conf, screen, n)

\* ---- struct Frame and the drawing of an icon ----
\* A frame is its width, its height and its pixels row by row (buf[i + 1] is
\* the pixel at index i of buf_u32); a pixel is its four channels
\* <<b, g, r, a>>.  fault is "" while the code runs on and otherwise names
\* the panic that ended it; a frame with a fault is passed on as it is.
Max(a, b) == IF a >= b THEN a ELSE b
Transparent == <<0, 0, 0, 0>>
Frame_new(width, height) ==
    [width |-> width, height |-> height,
     buf |-> [i \in 1..(width * height) |-> Transparent], fault |-> ""]

\* f.floor() as u32, f.ceil() as u32 and f as i32 of a length f
FloorU32(f) == Max(0, f \div Unit)
CeilU32(f) == Max(0, -((-f) \div Unit))
TruncI32(f) == IF f >= 0 THEN f \div Unit ELSE -((-f) \div Unit)
\* (p / q).round() for p >= 0 and q > 0
Round(p, q) == (2 * p + q) \div (2 * q)
\* the value of n - 1 in usize when the build does not check overflow;
\* usize_MAX stands for 2^64 - 1, which the code only compares and
\* multiplies by 0
usize_MAX == 2147483647
wrapping_sub_1(n) == IF n = 0 THEN usize_MAX ELSE n - 1

Area_shrink(area, amount) ==
    Area(area.x + amount, area.y + amount, area.w - amount * 2, area.h - amount * 2)

draw_rect(frame, area, color) ==
    IF frame.fault # "" THEN frame
    ELSE LET x == FloorU32(area.x)
             y == FloorU32(area.y)
             w == CeilU32(area.w)
             h == CeilU32(area.h)
             width == frame.width
             length == frame.width * frame.height
             rows == y..(y + h - 1)
         IN  IF \E row \in rows : row * width + x + w > length
             THEN [frame EXCEPT !.fault = "draw_rect: range end index out of range"]
             ELSE [frame EXCEPT !.buf =
                      [i \in 1..length |->
                          IF \E row \in rows :
                                (i - 1) \in (row * width + x)..(row * width + x + w - 1)
                          THEN color ELSE frame.buf[i]]]

draw_rect_outline(frame, area, bw, color) ==
    IF bw <= 0 THEN frame
    ELSE LET l == Area(area.x, area.y, bw, area.h)
             t == Area(area.x, area.y, area.w, bw)
             d == Area(area.x, area.y + area.h - bw, area.w, bw)
             r == Area(area.x + area.w - bw, area.y, bw, area.h)
         IN  draw_rect(draw_rect(draw_rect(draw_rect(frame, l, color), t, color),
                                 r, color), d, color)

\* The factor area.w / max(width, height) as the fraction num / den: with
\* den = 0 it is an infinity or, with num = 0 too, NaN.
\* (n as f32 * factor).round().max(1.0) as usize; 0 * infinity is NaN, and
\* max(1.0) of NaN is 1.0
scaled_size(n, factor) ==
    IF factor.den = 0
    THEN IF n = 0 \/ factor.num <= 0 THEN 1 ELSE usize_MAX
    ELSE IF factor.num <= 0 THEN 1
    ELSE Max(1, Round(n * factor.num, factor.den))

\* scale_bilinear; checks says whether the build panics on integer
\* overflow (overflow-checks, the default of a debug build)
scale_bilinear(self_, factor, checks) ==
    LET src_width == self_.width
        src_height == self_.height
        dst_width == scaled_size(src_width, factor)
        dst_height == scaled_size(src_height, factor)
        qx == Max(dst_width - 1, 1)
        qy == Max(dst_height - 1, 1)
        X0(x) == (x * wrapping_sub_1(src_width)) \div qx
        X1(x) == Min(X0(x) + 1, wrapping_sub_1(src_width))
        DX(x) == (x * wrapping_sub_1(src_width)) % qx
        Y0(y) == (y * wrapping_sub_1(src_height)) \div qy
        Y1(y) == Min(Y0(y) + 1, wrapping_sub_1(src_height))
        DY(y) == (y * wrapping_sub_1(src_height)) % qy
        length == src_width * src_height
        src(x, y) == self_.buf[y * src_width + x + 1]
        interp(x, y, ch) ==
            LET c0 == src(X0(x), Y0(y))[ch] * (qx - DX(x)) + src(X1(x), Y0(y))[ch] * DX(x)
                c1 == src(X0(x), Y1(y))[ch] * (qx - DX(x)) + src(X1(x), Y1(y))[ch] * DX(x)
            IN  Round(c0 * (qy - DY(y)) + c1 * DY(y), qx * qy) % 256
        fault ==
            IF checks /\ (src_width = 0 \/ src_height = 0)
            THEN "attempt to subtract with overflow"
            ELSE IF \E y \in 0..(dst_height - 1) :
                       \/ (Y0(y) + 1) * src_width > length
                       \/ (Y1(y) + 1) * src_width > length
            THEN "range end index out of range for slice"
            ELSE IF \E x \in 0..(dst_width - 1) : X0(x) >= src_width \/ X1(x) >= src_width
            THEN "index out of bounds"
            ELSE ""
    IN  IF self_.fault # "" THEN self_
        ELSE IF fault # "" THEN [Frame_new(0, 0) EXCEPT !.fault = fault]
        ELSE [width |-> dst_width, height |-> dst_height,
              buf |-> [i \in 1..(dst_width * dst_height) |->
                          LET x == (i - 1) % dst_width
                              y == (i - 1) \div dst_width
                          IN  <<interp(x, y, 1), interp(x, y, 2),
                                interp(x, y, 3), interp(x, y, 4)>>],
              fault |-> ""]

\* i32: a + b for 0 <= b, computed without leaving the range of i32;
\* add_i32 is the wrapped sum that a build without overflow checks gives
i32_MAX == 2147483647
i32_MIN == -2147483647 - 1
overflows_i32(a, b) == a > i32_MAX - b
add_i32(a, b) ==
    IF overflows_i32(a, b) THEN i32_MIN + ((a - i32_MAX) + b - 1) ELSE a + b

\* blit_frame: each pixel (sx, sy) of frame goes to (x + sx, y + sy) of the
\* destination when that lies inside it.  x + sx is evaluated only in rows
\* that are not skipped; with overflow checks either sum panics when it
\* leaves i32.
blit_frame(self_, frame, x, y, checks) ==
    IF self_.fault # "" THEN self_
    ELSE IF frame.fault # "" THEN [self_ EXCEPT !.fault = frame.fault]
    ELSE LET dst_width == self_.width
             dst_height == self_.height
             src_width == frame.width
             src_height == frame.height
             dy(sy) == add_i32(y, sy)
             dx(sx) == add_i32(x, sx)
             row_kept(sy) == ~(dy(sy) < 0 \/ dy(sy) >= dst_height)
             col_kept(sx) == ~(dx(sx) < 0 \/ dx(sx) >= dst_width)
             overflow ==
                 \E sy \in 0..(src_height - 1) :
                    \/ overflows_i32(y, sy)
                    \/ /\ row_kept(sy)
                       /\ \E sx \in 0..(src_width - 1) : overflows_i32(x, sx)
         IN  IF checks /\ overflow
             THEN [self_ EXCEPT !.fault = "attempt to add with overflow"]
             ELSE [self_ EXCEPT !.buf =
                     [i \in 1..(dst_width * dst_height) |->
                         LET from == {p \in (0..(src_width - 1)) \X (0..(src_height - 1)) :
                                         /\ row_kept(p[2])
                                         /\ col_kept(p[1])
                                         /\ dy(p[2]) * dst_width + dx(p[1]) = i - 1}
                         IN  IF from # {}
                             THEN LET p == CHOOSE q \in from : TRUE IN
                                  frame.buf[p[2] * src_width + p[1] + 1]
                             ELSE self_.buf[i]]]

\* draw_icon up to the scaling: background and outline of the icon's area
draw_icon_ground(frame, conf, area) ==
    draw_rect_outline(draw_rect(frame, area, conf.icon_bg_color),
                      area, conf.icon_border_width, conf.icon_border_color)

draw_icon(frame, conf, icon, area, checks) ==
    LET frame1 == draw_icon_ground(frame, conf, area)
        area1 == Area_shrink(area, conf.icon_border_width)
        area2 == Area_shrink(area1, Size_resolve(conf.icon_padding, area1.h))
        factor == [num |-> area2.w, den |-> Px(Max(icon.width, icon.height))]
        scaled == scale_bilinear(icon, factor, checks)
    IN  blit_frame(frame1, scaled, TruncI32(area2.x), TruncI32(area2.y), checks)

\* ---- struct TextRenderer ----
\* A character is its code point.  The model uses four: an ASCII letter, a
\* Latin-1 letter beyond ASCII, the bullet that is the default marker, and
\* an emoji.
Chars == {65, 233, 8226, 128512}
Marker == 8226
is_ascii(c) == c <= 127

\* A font is the set of characters it has a glyph for (has_glyph) and the
\* set of those whose rasterization is an empty bitmap.
Font(glyphs, blank) == [glyphs |-> glyphs, blank |-> blank]
FontValues == {Font({65}, {}),
               Font({65, 233, 8226}, {}),
               Font({65, 8226, 128512}, {128512}),
               Font({65, 233, 128512}, {})}
\* the fonts of font_1, font_2, font_3 that are configured, in this order
FontLists == UNION {[1..k -> FontValues] : k \in 1..MaxFont}

\* A rasterized glyph: the font (by index) and the glyph of that font it
\* was made from, and whether its bitmap is empty.  A font rasterizes a
\* character it has no glyph for as its glyph 0 (NotDef).
NotDef == 0
RasterizedGlyph_default == [font |-> None, glyph |-> NotDef, empty |-> TRUE]
rasterize(c, fonts, idx) ==
    LET font == fonts[idx + 1] IN
    IF c \in font.glyphs
    THEN [font |-> idx, glyph |-> c, empty |-> c \in font.blank]
    ELSE [font |-> idx, glyph |-> NotDef, empty |-> FALSE]

\* self.fonts.iter().find(|font| font.has_glyph(c)), as the index of the font
font_for_char(fonts, c) ==
    IF \E i \in 1..Len(fonts) : c \in fonts[i].glyphs
    THEN (CHOOSE i \in 1..Len(fonts) :
             /\ c \in fonts[i].glyphs
             /\ \A j \in 1..(i - 1) : c \notin fonts[j].glyphs) - 1
    ELSE None

\* TextRenderer::new.  ascii is the array of 256 glyphs, kept for the code
\* points of Chars; others is the map, a function on the keys it holds;
\* layout is the text whose glyphs the layout holds.
Latin1 == {c \in Chars : c <= 255}
TextRenderer_new(fonts) ==
    [ascii |-> [c \in Latin1 |-> rasterize(c, fonts, 0)],
     others |-> [c \in {} |-> RasterizedGlyph_default],
     fonts |-> fonts,
     layout |-> <<>>]

\* TextRenderer::get as an Option: <<>> stands for the panic of unwrap
TextRenderer_get(self_, c) ==
    IF c <= 255 THEN <<self_.ascii[c]>>
    ELSE IF c \in DOMAIN self_.others THEN <<self_.others[c]>>
    ELSE <<>>

insert(map, c, glyph) ==
    [k \in DOMAIN map \cup {c} |-> IF k = c THEN glyph ELSE map[k]]

\* The calls that TextRenderer::cache has made so far, by character: of
\* font_for_char (looked) and of rasterize (rasterized); passed is the set
\* of characters that went through set_layout.
NoCalls == [looked |-> [c \in Chars |-> 0], rasterized |-> [c \in Chars |-> 0],
            passed |-> {}]

\* TextRenderer::cache on t = [tr, log]
\* ... without the contains_key test
TextRenderer_cache_again(t, c) ==
    IF is_ascii(c) THEN t
    ELSE LET idx == font_for_char(t.tr.fonts, c)
             looked == [t.log EXCEPT !.looked[c] = @ + 1]
         IN  IF idx # None
             THEN LET glyph == rasterize(c, t.tr.fonts, idx)
                      log == [looked EXCEPT !.rasterized[c] = @ + 1]
                  IN  IF glyph.empty
                      THEN [tr |-> [t.tr EXCEPT !.others =
                                       insert(@, c, RasterizedGlyph_default)],
                            log |-> log]
                      ELSE [tr |-> [t.tr EXCEPT !.others = insert(@, c, glyph)],
                            log |-> log]
             ELSE [tr |-> [t.tr EXCEPT !.others = insert(@, c, RasterizedGlyph_default)],
                   log |-> looked]

TextRenderer_cache(t, c) ==
    IF is_ascii(c) THEN t
    ELSE IF c \in DOMAIN t.tr.others THEN t
    ELSE LET idx == font_for_char(t.tr.fonts, c)
             looked == [t.log EXCEPT !.looked[c] = @ + 1]
         IN  IF idx # None
             THEN LET glyph == rasterize(c, t.tr.fonts, idx)
                      log == [looked EXCEPT !.rasterized[c] = @ + 1]
                  IN  IF glyph.empty
                      THEN [tr |-> [t.tr EXCEPT !.others =
                                       insert(@, c, RasterizedGlyph_default)],
                            log |-> log]
                      ELSE [tr |-> [t.tr EXCEPT !.others = insert(@, c, glyph)],
                            log |-> log]
             ELSE [tr |-> [t.tr EXCEPT !.others = insert(@, c, RasterizedGlyph_default)],
                   log |-> looked]

RECURSIVE cache_chars(_, _)
cache_chars(t, text) ==
    IF text = <<>> THEN t
    ELSE cache_chars(TextRenderer_cache(t, Head(text)), Tail(text))

\* set_layout: every character of the text goes through cache, then the
\* layout is reset and filled with the text
set_layout(t, text) ==
    LET t1 == cache_chars(t, text) IN
    [tr |-> [t1.tr EXCEPT !.layout = text],
     log |-> [t1.log EXCEPT !.passed = @ \cup Range(text)]]

\* draw_text: the glyphs it gets, one for each glyph of the layout
draw_text(self_) ==
    [i \in 1..Len(self_.layout) |-> TextRenderer_get(self_, self_.layout[i])]

\* the font main loads when none is configured
main_fonts == <<Font({65, 233, 8226}, {})>>

\* ---- the registry held by main ----
self == TaskList(tasks, selected)

\* `last` records the call or event that produced the current state: its
\* name (op), its inputs (wids, wid, title, mod), the answers of the X server
\* (intro, ok), the key of a key press (key), the window it sent a focus or
\* close request for (req), and the selection, length and
\* mapped flag it found (sel, len, mapped).  Three fields look one call
\* further back: again (a diff_update that directly follows a diff_update
\* with the same set of ids), and, for a cycling call that directly follows
\* a cycling call, the name of that call (prev) and the selection it found
\* (sel2).  sent is the number of frames the step handed to send_frame;
\* ans, tried and resolved are the answer given to refresh, the sources it
\* called and the windows cache called refresh for; request is the request
\* an error event names; painted says whether draw_list painted the frame
\* and fault names the panic that ended the step.
NoIntro == [w \in Wids |-> NoTask]
\* chain follows the sequence next key press, modifier release with a
\* successful focus request, next key press, modifier release with a
\* successful focus request, begun on a registry of two or more tasks with
\* the last selected: stage counts the events of the sequence that have
\* happened with no other event in between, tasks and sel are the registry
\* the sequence began on.
NoChain == [stage |-> 0, tasks |-> <<>>, sel |-> None]
chain_press ==
    IF last.chain.stage = 2 THEN [last.chain EXCEPT !.stage = 3]
    ELSE IF Len(tasks) >= 2 /\ selected = Len(tasks) - 1
    THEN [stage |-> 1, tasks |-> tasks, sel |-> selected]
    ELSE NoChain
chain_release ==
    IF last.chain.stage \in {1, 3} THEN [last.chain EXCEPT !.stage = @ + 1]
    ELSE NoChain
Call(op) == [op |-> op, wids |-> <<>>, intro |-> NoIntro, wid |-> NoWid,
             title |-> 0, ok |-> TRUE, mod |-> TRUE, req |-> NoWid,
             sel |-> selected, len |-> Len(tasks), mapped |-> is_mapped,
             key |-> "", again |-> FALSE, prev |-> "", sel2 |-> None,
             sent |-> 0, ans |-> NoAnswer, tried |-> <<>>, resolved |-> <<>>,
             request |-> "", painted |-> FALSE, fault |-> "", chain |-> NoChain,
             resized |-> FALSE]
Cycling == {"select_older", "select_newer"}
CyclingCall(op) ==
    IF last.op \in Cycling
    THEN [Call(op) EXCEPT !.prev = last.op, !.sel2 = last.sel]
    ELSE Call(op)

\* Answers of window_to_task that matter to a call: ids outside the list,
\* or already tracked, are never introspected.
Intros(tl, wids, titles, classes) ==
    LET asked == Range(wids) \ WidsOf(tl.tasks) IN
    {[w \in Wids |-> IF w \in asked THEN f[w] ELSE NoTask] :
        f \in [asked -> {NoTask} \cup (titles \X classes)]}

Set(tl) == /\ tasks' = tl.tasks
           /\ selected' = tl.selected

\* Answers of the icon sources that matter to a call of cache: refresh is
\* called for the first task of each class pair that has no entry.
CacheAnswers(ic, ts, answers) ==
    LET asked == {ts[i].wid : i \in {k \in 1..Len(ts) :
                      /\ ic[ts[k].class] = None
                      /\ \A j \in 1..(k - 1) : ts[j].class # ts[k].class}}
    IN  {[w \in Wids |-> IF w \in asked THEN f[w] ELSE NoAnswer] :
            f \in [asked -> answers]}

Init ==
    /\ tasks = new.tasks
    /\ selected = new.selected
    /\ icons = IconCache_new
    /\ is_mapped = FALSE
    /\ title_changed = FALSE
    /\ icons_changed = FALSE
    /\ size_changed = FALSE
    /\ focus_changed = FALSE
    /\ window_changed = FALSE
    /\ pc = "start"
    /\ last = Call("new")
    /\ geometry = Area(0, 0, 0, 0)
    /\ main_frame = [width |-> 0, height |-> 0]
    /\ tr = TextRenderer_new(main_fonts)
    /\ tr_log = NoCalls

\* ---- SpecOps: the methods of TaskList, called in any order ----
loopvars == <<icons, is_mapped, title_changed, icons_changed, size_changed,
              focus_changed, window_changed, pc, geometry, main_frame, tr, tr_log>>

OpDiffUpdate ==
    \E wids \in SeqsUpTo(Wids, MaxList) :
      \E intro \in Intros(self, wids, Titles, LoopClasses) :
        /\ Set(diff_update(self, wids, intro))
        /\ last' = [Call("diff_update") EXCEPT
                       !.wids = wids, !.intro = intro,
                       !.again = (last.op = "diff_update"
                                  /\ Range(last.wids) = Range(wids))]
        /\ UNCHANGED loopvars

OpUpdateTitle ==
    \E wid \in Wids, title \in Titles :
        /\ Set(update_title(self, wid, title))
        /\ last' = [Call("update_title") EXCEPT !.wid = wid, !.title = title]
        /\ UNCHANGED loopvars

OpSelectOlder ==
    /\ Set(select_older(self))
    /\ last' = CyclingCall("select_older")
    /\ UNCHANGED loopvars

OpSelectNewer ==
    /\ Set(select_newer(self))
    /\ last' = CyclingCall("select_newer")
    /\ UNCHANGED loopvars

OpSelectEnd ==
    /\ Set(select_end(self))
    /\ last' = Call("select_end")
    /\ UNCHANGED loopvars

OpFocusBySelection ==
    /\ Set(focus_by_selection(self))
    /\ last' = Call("focus_by_selection")
    /\ UNCHANGED loopvars

OpFocusByWid ==
    \E wid \in Wids :
        /\ Set(focus_by_wid(self, wid))
        /\ last' = [Call("focus_by_wid") EXCEPT !.wid = wid]
        /\ UNCHANGED loopvars

OpUnfocus ==
    /\ Set(unfocus(self))
    /\ last' = Call("unfocus")
    /\ UNCHANGED loopvars

NextOps ==
    \/ OpDiffUpdate
    \/ OpUpdateTitle
    \/ OpSelectOlder
    \/ OpSelectNewer
    \/ OpSelectEnd
    \/ OpFocusBySelection
    \/ OpFocusByWid
    \/ OpUnfocus

SpecOps == Init /\ [][NextOps]_vars

\* ---- Spec: main and its event loop ----
\* pc: "start" before the loop, "wait" blocked in wait_for_event, "drain"
\* inside the while loop that handles the pending events, "exit" after main
\* has returned.
Keys == {"next", "prev", "kill", "quit", "other"}
\* an event whose record keeps only its name and the outcome of its request
Event(op) == [Call(op) EXCEPT !.sel = None, !.len = 0, !.mapped = FALSE]
\* _NET_CLIENT_LIST as the window manager writes it: each managed window once
ClientLists == {wids \in SeqsUpTo(LoopWids, MaxLoopWid) :
                   \A i, j \in 1..Len(wids) : i # j => wids[i] # wids[j]}
show_icons == TRUE
\* the answers of the icon sources in Spec: no source has an icon, or the
\* window has one
LoopAnswers == {NoAnswer, [NoAnswer EXCEPT !.net = 1]}
InLoop == pc \in {"wait", "drain"}
\* show! that maps the window but does not record it
show_unrecorded(mapped) == mapped
\* the macros show! and hide!, as the value they leave in is_mapped
show(mapped) == IF ~mapped THEN TRUE ELSE mapped
hide(mapped) == IF mapped THEN FALSE ELSE mapped
\* the commit made whatever the outcome of the request
release_commit_always(tl, ok) == focus_by_selection(tl)
\* the registry after the modifier release has asked for the focus of the
\* selected task: focus_by_selection only when the request went through
release_commit(tl, ok) == IF ok THEN focus_by_selection(tl) ELSE tl
Handled == pc' = "drain"
\* the screen and the configuration main runs with: the defaults of
\* Config::new on a screen of 200 x 150 pixels
main_screen == [width_in_pixels |-> 200, height_in_pixels |-> 150]
main_conf == Config("Rows", "Center", 1, Absolute(64), Absolute(200), main_screen)
\* the test before draw_list without its is_mapped conjunct
redraw_unmapped(mapped, tl, focus, title, icon, window) ==
    ~is_empty(tl) /\ (focus \/ title \/ icon \/ window)
\* the test that guards draw_list and send_frame
redraw(mapped, tl, focus, title, icon, window) ==
    mapped /\ ~is_empty(tl) /\ (focus \/ title \/ icon \/ window)

show_marker == TRUE
\* the text of a title: titles are ASCII strings of different lengths
TitleText(title) == [i \in 1..title |-> 65]
\* the bitmap behind a cache entry: Frame::new(0, 0) for the entry of a
\* window without any icon, one pixel for the others
IconFrame(b) ==
    IF b = EmptyIcon THEN Frame_new(0, 0)
    ELSE [Frame_new(1, 1) EXCEPT !.buf = <<<<b, b, b, 255>>>>]
\* the panic draw_icon ends in, "" when it returns: that of scale_bilinear
\* on the bitmap, here scaled to an area one pixel wide
draw_icon_fault(b, checks) ==
    LET icon == IconFrame(b) IN
    scale_bilinear(icon, [num |-> Px(1), den |-> Px(Max(icon.width, icon.height))],
                   checks).fault

\* geometry.w as u32
AsU32(f) == Max(0, TruncI32(f))
\* (0.0, 0.0, 1.0, 1.0).into(), the geometry of a window without tasks
NoGeometry == Area(0, 0, Px(1), Px(1))
\* the width and height Frame::new gives the frame
Frame_size(width, height) == [width |-> width, height |-> height]
\* resize that reallocates the buffer and keeps width and height
Frame_resize_buf_only(frame, width, height) == frame
\* Frame::resize
Frame_resize(frame, width, height) == [frame EXCEPT !.width = width, !.height = height]

\* The loop of draw_list_rows and draw_list_cols over the tasks `list`,
\* newest first, i being the index of the first of them: the icon is
\* drawn, then draw_task lays out the title and, for the selected task,
\* draw_marker the marker.  d is the text renderer with its log, the panic
\* that has ended the drawing, and whether anything was painted.
RECURSIVE draw_tasks(_, _, _, _, _, _)
draw_tasks(d, list, i, selected_idx, ic, checks) ==
    IF list = <<>> \/ d.fault # "" THEN d
    ELSE LET task == Head(list)
             fault == IF ~show_icons THEN ""
                      ELSE IF get(ic, task) = None
                      THEN "called Option::unwrap() on a None value"
                      ELSE draw_icon_fault(get(ic, task), checks)
             t1 == set_layout(d.t, TitleText(task.title))
             t2 == IF show_marker /\ i = selected_idx
                   THEN set_layout(t1, <<Marker>>) ELSE t1
         IN  IF fault # "" THEN [d EXCEPT !.fault = fault]
             ELSE draw_tasks([d EXCEPT !.t = t2], Tail(list), i + 1, selected_idx,
                             ic, checks)

\* draw_list: nothing is painted when no task is selected
draw_list(t, tl, ic, checks) ==
    LET view == list_descending(tl) IN
    IF view[2] = None THEN [t |-> t, fault |-> "", painted |-> FALSE]
    ELSE draw_tasks([t |-> t, fault |-> "", painted |-> TRUE],
                    view[1], 0, view[2], ic, checks)

\* main up to the loop: the first reconciliation and the active window;
\* classes are the class pairs the windows can have
StartupOn(classes) ==
    /\ pc = "start"
    /\ \E wids \in ClientLists :
         \E intro \in Intros(self, wids, LoopTitles, classes), wid \in {NoWid} \cup LoopWids :
           LET tl1 == diff_update(self, wids, intro)
               tl == IF wid # NoWid THEN focus_by_wid(tl1, wid) ELSE tl1
           IN  /\ Set(tl)
               /\ IF show_icons
                  THEN \E ans \in CacheAnswers(IconCache_new, tl.tasks, LoopAnswers) :
                          icons' = cache(IconCache_new, tl, ans).icons
                  ELSE icons' = IconCache_new
               /\ LET g == compute_window_geometry(main_conf, main_screen, len(tl))
                      g1 == IF g = <<>> THEN NoGeometry ELSE g[1]
                  IN  /\ geometry' = g1
                      /\ main_frame' = Frame_size(AsU32(g1.w), AsU32(g1.h))
               /\ last' = Event("Startup")
    /\ pc' = "wait"
    /\ UNCHANGED <<is_mapped, flagvars, tr, tr_log>>

Startup == StartupOn(LoopClasses)

Expose ==
    /\ InLoop
    /\ window_changed' = TRUE
    /\ Handled
    /\ UNCHANGED drawvars
    /\ last' = Event("Expose")
    /\ UNCHANGED icons
    /\ UNCHANGED <<regvars, is_mapped, title_changed, icons_changed,
                   size_changed, focus_changed>>

\* e.request_name of an error event: the failed request, "" for None
RequestNames == {"GrabKey", "ChangeProperty", ""}
\* the test of the error branch, true of every error that names a request
is_grab_failure_any(request_name) == request_name # ""
\* e.request_name == Some("GrabKey")
is_grab_failure(request_name) == request_name = "GrabKey"

\* Event::Error: a failed GrabKey ends main, any other error is printed
ErrorEvent ==
    /\ InLoop
    /\ \E name \in RequestNames :
         /\ pc' = IF is_grab_failure(name) THEN "exit" ELSE "drain"
         /\ last' = [Event("Error") EXCEPT !.ok = ~is_grab_failure(name),
                                           !.request = name]
    /\ UNCHANGED <<regvars, icons, is_mapped, flagvars, drawvars>>

\* PropertyNotify of _NET_CLIENT_LIST; ok is the outcome of get_windows,
\* classes are the class pairs the windows can have
ClientListOn(classes) ==
    /\ InLoop
    /\ \/ /\ last' = [Event("ClientList") EXCEPT !.ok = FALSE]
          /\ UNCHANGED <<regvars, icons, flagvars>>
       \/ \E wids \in ClientLists :
            \E intro \in Intros(self, wids, LoopTitles, classes) :
              LET tl == diff_update(self, wids, intro) IN
              /\ Set(tl)
              /\ size_changed' = (size_changed \/ Len(tasks) # len(tl))
              /\ focus_changed' = TRUE
              /\ IF show_icons
                 THEN \E ans \in CacheAnswers(icons, tl.tasks, LoopAnswers) :
                         icons' = cache(icons, tl, ans).icons
                 ELSE icons' = icons
              /\ icons_changed' = (icons_changed \/ show_icons)
              /\ last' = Event("ClientList")
              /\ UNCHANGED <<title_changed, window_changed>>
    /\ Handled
    /\ UNCHANGED drawvars
    /\ UNCHANGED is_mapped

ClientList == ClientListOn(LoopClasses)

\* PropertyNotify of _NET_ACTIVE_WINDOW; ok is the outcome of
\* get_active_window and wid the window it names, if any
ActiveWindow ==
    /\ InLoop
    /\ \/ /\ last' = [Call("ActiveWindow") EXCEPT !.ok = FALSE]
          /\ UNCHANGED <<regvars, focus_changed>>
       \/ \E wid \in LoopWids :
            /\ Set(focus_by_wid(self, wid))
            /\ focus_changed' = TRUE
            /\ last' = [Call("ActiveWindow") EXCEPT !.wid = wid]
       \/ /\ Set(unfocus(self))
          /\ last' = Call("ActiveWindow")
          /\ UNCHANGED focus_changed
    /\ Handled
    /\ UNCHANGED drawvars
    /\ UNCHANGED <<icons, is_mapped, title_changed, icons_changed, size_changed,
                   window_changed>>

\* PropertyNotify of _NET_WM_NAME or WM_NAME on window wid; ok is the outcome
\* of get_window_title.  A failed read falls through to the _NET_WM_ICON
\* test, which is false for these atoms.
TitleChanged ==
    /\ InLoop
    /\ \E wid \in LoopWids :
         \/ /\ last' = [Event("TitleChanged") EXCEPT !.ok = FALSE]
            /\ UNCHANGED <<regvars, title_changed>>
         \/ \E title \in LoopTitles :
              /\ Set(update_title(self, wid, title))
              /\ title_changed' = TRUE
              /\ last' = Event("TitleChanged")
    /\ Handled
    /\ UNCHANGED drawvars
    /\ UNCHANGED <<icons, is_mapped, icons_changed, size_changed, focus_changed,
                   window_changed>>

\* PropertyNotify of _NET_WM_ICON on window wid
IconChanged ==
    /\ InLoop
    /\ \E wid \in LoopWids :
         IF show_icons /\ contains(self, wid)
         THEN \E a \in LoopAnswers :
                /\ icons' = refresh(icons, get_task_by_id(self, wid)[1], a).icons
                /\ icons_changed' = TRUE
                /\ last' = Event("IconChanged")
         ELSE /\ UNCHANGED <<icons, icons_changed>>
              /\ last' = Event("IconChanged")
    /\ Handled
    /\ UNCHANGED drawvars
    /\ UNCHANGED <<regvars, is_mapped, title_changed, size_changed,
                   focus_changed, window_changed>>

\* XinputKeyRelease; mod says whether the released key is key_mod, ok is the
\* outcome of request_window_focus when it is called
KeyRelease ==
    /\ InLoop
    /\ \E mod \in BOOLEAN, ok \in BOOLEAN :
         IF mod /\ is_mapped
         THEN /\ is_mapped' = hide(is_mapped)
              /\ IF selected # None
                 THEN /\ Set(release_commit(self, ok))
                      /\ last' = [Call("KeyRelease") EXCEPT
                                     !.mod = mod, !.ok = ok,
                                     !.req = selected_wid(self),
                                     !.chain = IF ok THEN chain_release ELSE NoChain]
                 ELSE /\ ok
                      /\ UNCHANGED regvars
                      /\ last' = [Call("KeyRelease") EXCEPT !.mod = mod]
         ELSE /\ ok
              /\ UNCHANGED <<regvars, is_mapped>>
              /\ last' = [Call("KeyRelease") EXCEPT !.mod = mod]
    /\ Handled
    /\ UNCHANGED drawvars
    /\ UNCHANGED <<icons, flagvars>>

\* KeyPress; mod says whether e.state carries the modifier, key which of the
\* bound keys e.detail is, ok the outcome of request_window_close (kill) or
\* whether get_active_window names a window (quit)
KeyPress ==
    /\ InLoop
    /\ \E mod \in BOOLEAN, key \in Keys, ok \in BOOLEAN :
         LET ev == [Call("KeyPress") EXCEPT !.mod = mod, !.key = key] IN
         IF mod /\ key = "next"
         THEN /\ ok
              /\ Set(select_older(self))
              /\ focus_changed' = TRUE
              /\ is_mapped' = show(is_mapped)
              /\ last' = [ev EXCEPT !.chain = chain_press]
              /\ UNCHANGED size_changed
         ELSE IF mod /\ key = "prev"
         THEN /\ ok
              /\ Set(select_newer(self))
              /\ focus_changed' = TRUE
              /\ is_mapped' = show(is_mapped)
              /\ last' = ev
              /\ UNCHANGED size_changed
         ELSE IF mod /\ key = "kill" /\ is_mapped
         THEN /\ selected = None => ok
              /\ focus_changed' = (focus_changed \/ (selected # None /\ ok))
              /\ size_changed' = (size_changed \/ (selected # None /\ ok))
              /\ last' = [ev EXCEPT !.ok = ok, !.req = selected_wid(self)]
              /\ UNCHANGED <<regvars, is_mapped>>
         ELSE IF mod /\ key = "quit" /\ is_mapped
         THEN /\ Set(IF ok THEN select_end(self) ELSE unfocus(self))
              /\ is_mapped' = hide(is_mapped)
              /\ last' = [ev EXCEPT !.ok = ok]
              /\ UNCHANGED <<focus_changed, size_changed>>
         ELSE /\ ok
              /\ last' = ev
              /\ UNCHANGED <<regvars, is_mapped, focus_changed, size_changed>>
    /\ Handled
    /\ UNCHANGED drawvars
    /\ UNCHANGED <<icons, title_changed, icons_changed, window_changed>>

\* the record of the end of a cycle, which is no event of the sequence that
\* chain follows and leaves it where it is
EndOfCycle == [Event("EndCycle") EXCEPT !.chain = last.chain]

\* poll_for_event returned None: the rest of the loop body, then the top of
\* the next iteration, where the five flags start false again.
\* With size_changed and no geometry the window is hidden and `continue`
\* skips the drawing; otherwise a new geometry moves the window, resizes
\* the frame and sets window_changed.  When the test of `redraw` holds,
\* draw_list runs and, unless it panics, one frame is sent.
EndCycle ==
    /\ pc = "drain"
    /\ LET g == compute_window_geometry(main_conf, main_screen, len(self)) IN
       IF size_changed /\ g = <<>>
       THEN /\ is_mapped' = hide(is_mapped)
            /\ last' = EndOfCycle
            /\ pc' = "wait"
            /\ UNCHANGED drawvars
       ELSE /\ is_mapped' = is_mapped
            /\ geometry' = IF size_changed THEN g[1] ELSE geometry
            /\ main_frame' = IF size_changed
                             THEN Frame_resize(main_frame, AsU32(g[1].w), AsU32(g[1].h))
                             ELSE main_frame
            /\ IF redraw(is_mapped, self, focus_changed, title_changed,
                         icons_changed, window_changed \/ size_changed)
               THEN \E checks \in BOOLEAN :
                      LET d == draw_list([tr |-> tr, log |-> tr_log], self, icons, checks) IN
                        /\ tr' = d.t.tr
                        /\ tr_log' = d.t.log
                        /\ pc' = IF d.fault # "" THEN "exit" ELSE "wait"
                        /\ last' = [EndOfCycle EXCEPT
                                       !.sent = IF d.fault # "" THEN 0 ELSE 1,
                                       !.painted = d.painted,
                                       !.fault = d.fault,
                                       !.resized = size_changed]
               ELSE /\ pc' = "wait"
                    /\ last' = [EndOfCycle EXCEPT !.resized = size_changed]
                    /\ UNCHANGED <<tr, tr_log>>
    /\ title_changed' = FALSE
    /\ icons_changed' = FALSE
    /\ size_changed' = FALSE
    /\ focus_changed' = FALSE
    /\ window_changed' = FALSE
    /\ UNCHANGED <<regvars, icons>>

Next ==
    \/ Startup
    \/ Expose
    \/ ErrorEvent
    \/ ClientList
    \/ ActiveWindow
    \/ TitleChanged
    \/ IconChanged
    \/ KeyRelease
    \/ KeyPress
    \/ EndCycle

Spec == Init /\ [][Next]_vars

\* ---- SpecIcons: the methods of IconCache, called in any order ----
\* The registry changes by diff_update alone, over the windows of LoopWids
\* with any of the class pairs; cache is called with the registry, refresh
\* with one of its tasks, as main calls them.
iconsfixed == <<selected, is_mapped, title_changed, icons_changed, size_changed,
                focus_changed, window_changed, pc, geometry, main_frame, tr, tr_log>>

IcDiffUpdate ==
    \E wids \in ClientLists :
      \E intro \in Intros(self, wids, LoopTitles, Classes) :
        /\ Set(diff_update(self, wids, intro))
        /\ last' = Event("diff_update")
        /\ UNCHANGED <<icons, is_mapped, flagvars, pc, drawvars>>

IcCache ==
    \E ans \in CacheAnswers(icons, tasks, FirstAnswers) :
      LET c == cache(icons, self, ans) IN
        /\ icons' = c.icons
        /\ last' = [Event("cache") EXCEPT !.resolved = c.resolved]
        /\ UNCHANGED <<tasks, iconsfixed>>

IcRefresh ==
    \E i \in 1..Len(tasks), a \in IconAnswers :
      LET r == refresh(icons, tasks[i], a) IN
        /\ icons' = r.icons
        /\ last' = [Event("refresh") EXCEPT
                       !.wid = tasks[i].wid, !.ans = a, !.tried = r.tried]
        /\ UNCHANGED <<tasks, iconsfixed>>

NextIcons ==
    \/ IcDiffUpdate
    \/ IcCache
    \/ IcRefresh

SpecIcons == Init /\ [][NextIcons]_vars

\* ---- SpecLayout: the geometry functions applied to any input ----
\* A behaviour applies one function once, to inputs of its choice, and
\* records the inputs and the result in `last`; the program state stays as
\* Init left it.
Fresh == last.op = "new"
Screens == {[width_in_pixels |-> 200, height_in_pixels |-> 150],
            [width_in_pixels |-> 100, height_in_pixels |-> 100]}
BorderWidths == {0, 1, 2}
TaskSizes == {Absolute(64), Absolute(20), Relative(1, 2)}
Extents == {Px(k) : k \in 1..(MaxTasks + 1)}

LyGeometry ==
    \E layout \in {"Rows", "Columns"}, location \in WindowLocations,
       border_width \in BorderWidths, size \in TaskSizes, screen \in Screens,
       n \in 0..MaxTasks :
      LET conf == Config(layout, location, border_width, size, size, screen)
          screen_size == IF layout = "Rows"
                         THEN Px(screen.height_in_pixels)
                         ELSE Px(screen.width_in_pixels)
      IN  /\ Fresh
          /\ last' = [op |-> "compute_window_geometry",
                      conf |-> conf, size |-> size, screen |-> screen,
                      screen_size |-> screen_size, n |-> n,
                      task_size |-> IF n = 0 THEN 0
                                    ELSE compute_task_size(conf, screen_size, size, n),
                      geometry |-> compute_window_geometry(conf, screen, n)]
          /\ UNCHANGED <<regvars, icons, is_mapped, flagvars, pc, drawvars>>

LyResolve ==
    \E location \in WindowLocations, aw \in Extents, ah \in Extents,
       bw \in Extents, bh \in Extents :
      /\ Fresh
      /\ last' = [op |-> "resolve", location |-> location,
                  a |-> <<aw, ah>>, b |-> <<bw, bh>>,
                  xy |-> WindowLocation_resolve(location, <<aw, ah>>, <<bw, bh>>)]
      /\ UNCHANGED <<regvars, icons, is_mapped, flagvars, pc, drawvars>>

NextLayout ==
    \/ LyGeometry
    \/ LyResolve

SpecLayout == Init /\ [][NextLayout]_vars

\* ---- SpecDraw: draw_icon and blit_frame applied to any input ----
\* A behaviour draws one icon once into a transparent frame of 4 x 4
\* pixels.  The icon is 0 to MaxIcon pixels wide and high, with pixels of
\* two colours; its area is the square of icon_w pixels at the origin.
IconPixels == {<<0, 0, 255, 255>>, <<255, 128, 0, 128>>}
IconFrames ==
    UNION {{[width |-> w, height |-> h, buf |-> b, fault |-> ""] :
               b \in [1..(w * h) -> IconPixels]} :
           w \in 0..MaxIcon, h \in 0..MaxIcon}
DrawConfs ==
    [icon_bg_color : {<<10, 10, 10, 255>>},
     icon_border_color : {<<20, 20, 20, 255>>},
     icon_border_width : {0, Px(1)},
     icon_padding : {Absolute(0), Relative(1, 5)}]

DrDrawIcon ==
    \E icon \in IconFrames, conf \in DrawConfs, icon_w \in {2, 4}, checks \in BOOLEAN :
      LET frame == Frame_new(4, 4)
          area == Area(0, 0, Px(icon_w), Px(icon_w))
      IN  /\ Fresh
          /\ last' = [op |-> "draw_icon", icon |-> icon, conf |-> conf,
                      area |-> area, checks |-> checks,
                      ground |-> draw_icon_ground(frame, conf, area),
                      frame |-> draw_icon(frame, conf, icon, area, checks)]
          /\ UNCHANGED <<regvars, icons, is_mapped, flagvars, pc, drawvars>>

\* blit_frame of any icon onto a frame of 3 x 2 pixels, each of its own
\* colour, at offsets around the frame and at the ends of i32
Offsets == {i32_MIN, i32_MIN + 1, -2, -1, 0, 1, 2, 3, i32_MAX - 1, i32_MAX}
BlitTarget ==
    [width |-> 3, height |-> 2,
     buf |-> [i \in 1..6 |-> <<i, i, i, 255>>], fault |-> ""]

DrBlitFrame ==
    \E src \in IconFrames, x \in Offsets, y \in Offsets, checks \in BOOLEAN :
      /\ Fresh
      /\ last' = [op |-> "blit_frame", src |-> src, x |-> x, y |-> y,
                  checks |-> checks, dst |-> BlitTarget,
                  frame |-> blit_frame(BlitTarget, src, x, y, checks)]
      /\ UNCHANGED <<regvars, icons, is_mapped, flagvars, pc, drawvars>>

NextDraw ==
    \/ DrDrawIcon
    \/ DrBlitFrame

SpecDraw == Init /\ [][NextDraw]_vars

\* ---- SpecTitle: update_title applied to any registry ----
\* The registry starts as any that TaskList can hold: up to MaxLoopWid tasks
\* with distinct window ids, any titles and class pairs, and a selection
\* that is absent or names one of them.
TaskValues == [wid : Wids, title : Titles, class : Classes]
Registries ==
    {r \in {TaskList(ts, sel) :
                ts \in {t \in SeqsUpTo(TaskValues, MaxLoopWid) :
                           \A i, j \in 1..Len(t) : i # j => t[i].wid # t[j].wid},
                sel \in {None} \cup (0..(MaxLoopWid - 1))} :
        r.selected < len(r)}

InitTitle ==
    /\ \E tl \in Registries :
          /\ tasks = tl.tasks
          /\ selected = tl.selected
    /\ icons = IconCache_new
    /\ is_mapped = FALSE
    /\ title_changed = FALSE
    /\ icons_changed = FALSE
    /\ size_changed = FALSE
    /\ focus_changed = FALSE
    /\ window_changed = FALSE
    /\ pc = "start"
    /\ last = Call("new")
    /\ geometry = Area(0, 0, 0, 0)
    /\ main_frame = [width |-> 0, height |-> 0]
    /\ tr = TextRenderer_new(main_fonts)
    /\ tr_log = NoCalls

NextTitle ==
    \/ OpUpdateTitle

SpecTitle == InitTitle /\ [][NextTitle]_vars

\* ---- SpecText: the text renderer on any fonts and texts ----
\* The renderer is made from any list of fonts; set_layout is called with
\* any text of up to MaxText characters and draw_text draws the layout, as
\* draw_task and draw_marker call them.  A character that cache has looked
\* up twice ends the calls.
Texts == SeqsUpTo(Chars, MaxText)

InitText ==
    /\ tasks = new.tasks
    /\ selected = new.selected
    /\ icons = IconCache_new
    /\ is_mapped = FALSE
    /\ title_changed = FALSE
    /\ icons_changed = FALSE
    /\ size_changed = FALSE
    /\ focus_changed = FALSE
    /\ window_changed = FALSE
    /\ pc = "start"
    /\ last = Call("new")
    /\ geometry = Area(0, 0, 0, 0)
    /\ main_frame = [width |-> 0, height |-> 0]
    /\ \E fonts \in FontLists : tr = TextRenderer_new(fonts)
    /\ tr_log = NoCalls

textfixed == <<regvars, icons, is_mapped, flagvars, pc, geometry, main_frame>>

TxSetLayout ==
    \E text \in Texts :
      LET t == set_layout([tr |-> tr, log |-> tr_log], text) IN
        /\ \A c \in Chars : tr_log.looked[c] <= 1
        /\ tr' = t.tr
        /\ tr_log' = t.log
        /\ last' = [op |-> "set_layout", text |-> text, got |-> <<>>]
        /\ UNCHANGED textfixed

TxDrawText ==
    /\ last' = [op |-> "draw_text", text |-> tr.layout, got |-> draw_text(tr)]
    /\ UNCHANGED <<textfixed, tr, tr_log>>

NextText ==
    \/ TxSetLayout
    \/ TxDrawText

SpecText == InitText /\ [][NextText]_vars

\* ---- SpecToggle: key presses and releases on any registry ----
\* The loop waits with the overlay unmapped on any registry of up to
\* MaxTasks windows, whose icons are cached; the events are key presses and
\* key releases.
ToggleRegistries ==
    {r \in {TaskList(ts, sel) :
                ts \in {t \in SeqsUpTo([wid : Wids, title : LoopTitles, class : LoopClasses],
                                        MaxTasks) :
                           \A i, j \in 1..Len(t) : i # j => t[i].wid # t[j].wid},
                sel \in {None} \cup (0..(MaxTasks - 1))} :
        r.selected < len(r)}

InitToggle ==
    /\ \E tl \in ToggleRegistries :
          /\ tasks = tl.tasks
          /\ selected = tl.selected
          /\ LET g == compute_window_geometry(main_conf, main_screen, len(tl))
                 g1 == IF g = <<>> THEN NoGeometry ELSE g[1]
             IN  /\ geometry = g1
                 /\ main_frame = Frame_size(AsU32(g1.w), AsU32(g1.h))
    /\ icons = [c \in Classes |-> IF c \in LoopClasses THEN 1 ELSE None]
    /\ is_mapped = FALSE
    /\ title_changed = FALSE
    /\ icons_changed = FALSE
    /\ size_changed = FALSE
    /\ focus_changed = FALSE
    /\ window_changed = FALSE
    /\ pc = "wait"
    /\ last = Call("new")
    /\ tr = TextRenderer_new(main_fonts)
    /\ tr_log = NoCalls

NextToggle ==
    \/ KeyRelease
    \/ KeyPress
    \/ EndCycle

SpecToggle == InitToggle /\ [][NextToggle]_vars

\* ---- what the claims speak of ----
\* the sequence ts with the task at index i (0-based) moved to the end
MovedToEnd(ts, i) ==
    [j \in 1..Len(ts) |->
        IF j < i + 1 THEN ts[j]
        ELSE IF j < Len(ts) THEN ts[j + 1]
        ELSE ts[i + 1]]

\* s without the later occurrences of a value that occurs more than once
FirstOccurrences(s) ==
    LET keep == {i \in 1..Len(s) : \A j \in 1..(i - 1) : s[j] # s[i]}
        F[i \in 0..Len(s)] ==
            IF i = 0 THEN <<>>
            ELSE IF i \in keep THEN Append(F[i - 1], s[i]) ELSE F[i - 1]
    IN  F[Len(s)]

\* C1: after any sequence of TaskList calls from the empty registry, no two
\* tracked tasks share a window id, and the selection is absent or an index
\* below the number of tracked tasks.
C1_RegistryInvariant ==
    /\ \A i, j \in 1..Len(tasks) : i # j => tasks[i].wid # tasks[j].wid
    /\ selected = None \/ (0 <= selected /\ selected < Len(tasks))

\* C1 witness: diff_update was given a list that names an untracked window
\* twice and drops the selected last task of a two-task registry.
C1_Witness ==
    /\ last.op = "diff_update"
    /\ last.wids = <<1, 1, 2>>
    /\ last.intro[1] # NoTask
    /\ last.sel = 1
    /\ last.len = 2
    /\ WidSeq(tasks) = <<2, 1>>
    /\ selected = 0

\* C2: diff_update leaves the previously tracked tasks whose id is in the
\* list, in their previous order, followed by one task for each untracked id
\* of the list whose introspection succeeds, in order of first occurrence in
\* the list; an id whose introspection fails is not tracked, and every id
\* tracked afterwards is in the list.
C2_DiffUpdateResult ==
    [][last'.op = "diff_update" =>
        LET wids == last'.wids
            intro == last'.intro
            kept == SelectSeq(tasks, LAMBDA t : t.wid \in Range(wids))
            fresh == SelectSeq(FirstOccurrences(wids),
                               LAMBDA w : w \notin WidsOf(tasks) /\ intro[w] # NoTask)
        IN  /\ Len(tasks') = Len(kept) + Len(fresh)
            /\ SubSeq(tasks', 1, Len(kept)) = kept
            /\ WidSeq(SubSeq(tasks', Len(kept) + 1, Len(tasks'))) = fresh
            /\ \A w \in Range(wids) \ WidsOf(tasks) :
                  intro[w] = NoTask => w \notin WidsOf(tasks')
            /\ WidsOf(tasks') \subseteq Range(wids)
    ]_vars

\* C2 witness: from two tracked tasks, a list that drops one, keeps the other
\* and names a new window twice.
C2_Witness ==
    /\ last.op = "diff_update"
    /\ last.wids = <<3, 2, 3>>
    /\ last.len = 2
    /\ last.intro[3] # NoTask
    /\ WidSeq(tasks) = <<2, 3>>

\* C3 as stated: a diff_update that directly follows a diff_update with the
\* same set of ids changes neither the tasks, their titles nor the selection.
C3_Idempotent_AsStated ==
    [][(last'.op = "diff_update" /\ last'.again) =>
        (tasks' = tasks /\ selected' = selected)]_vars

\* C3 amended: a diff_update that directly follows a diff_update with the
\* same set of ids, and in which every id the first call left untracked fails
\* introspection again, changes neither the tasks, their titles nor the
\* selection.
C3_Idempotent ==
    [][(/\ last'.op = "diff_update"
        /\ last'.again
        /\ \A w \in Range(last'.wids) \ WidsOf(tasks) : last'.intro[w] = NoTask) =>
        (tasks' = tasks /\ selected' = selected)]_vars

\* C3 witness: the second of two calls with the same ids, on a registry of
\* two tasks with a selection, with a third id of the list failing
\* introspection.
C3_Witness ==
    /\ last.op = "diff_update"
    /\ last.again
    /\ Range(last.wids) = {1, 2, 3}
    /\ last.intro = NoIntro
    /\ Len(tasks) = 2
    /\ selected = 1

\* C4: diff_update never creates a selection; a selection at index i becomes
\* min(i, n - 1), n being the number of tasks the removals leave, and becomes
\* absent when the removals leave none.
C4_SelectionAfterDiff ==
    [][last'.op = "diff_update" =>
        LET n == Cardinality(WidsOf(tasks) \cap Range(last'.wids)) IN
        selected' = IF selected = None THEN None
                    ELSE IF n = 0 THEN None
                    ELSE Min(selected, n - 1)]_vars

\* C4 witness: the selected last task of two is removed while a new task is
\* added, so the selection is clamped to index 0 of a registry of two.
C4_Witness ==
    /\ last.op = "diff_update"
    /\ last.sel = 1
    /\ last.len = 2
    /\ Len(tasks) = 2
    /\ selected = 0

\* C5: focus_by_selection with a selection at i moves the task at i to the
\* end, keeps the order of the others, selects the last index and keeps the
\* set of ids; with i the last index the sequence is unchanged; without a
\* selection nothing changes.
C5_CommitSelection ==
    [][last'.op = "focus_by_selection" =>
        IF selected = None
        THEN tasks' = tasks /\ selected' = None
        ELSE /\ tasks' = MovedToEnd(tasks, selected)
             /\ selected' = Len(tasks) - 1
             /\ tasks'[selected' + 1] = tasks[selected + 1]
             /\ WidsOf(tasks') = WidsOf(tasks)
             /\ (selected = Len(tasks) - 1 => tasks' = tasks)]_vars

\* C5 witness: the first of three tasks was selected and has been committed.
C5_Witness ==
    /\ last.op = "focus_by_selection"
    /\ last.sel = 0
    /\ last.len = 3
    /\ Len(tasks) = 3
    /\ selected = 2

\* C6: select_older directly followed by select_newer, or the reverse, from a
\* defined selection, returns the selection to where it was; with exactly one
\* task, each of the two alone leaves the selection where it was.
C6_CycleInverse ==
    /\ (/\ last.op \in Cycling
        /\ last.prev \in Cycling
        /\ last.prev # last.op
        /\ last.sel2 # None) => selected = last.sel2
    /\ (last.op \in Cycling /\ last.len = 1 /\ last.sel # None) => selected = last.sel

\* C6 witness: select_older wrapped from index 0 to index 2 and select_newer
\* has come back to 0.
C6_Witness ==
    /\ last.op = "select_newer"
    /\ last.prev = "select_older"
    /\ last.sel2 = 0
    /\ last.sel = 2
    /\ last.len = 3
    /\ selected = 0

\* C7: without a selection, on a non-empty registry, select_older and
\* select_newer both select the last task; with a selection, select_newer
\* moves the index by +1 and select_older by -1, modulo the length; on an
\* empty registry both leave the selection absent.
C7_Cycling ==
    [][last'.op \in Cycling =>
        /\ tasks' = tasks
        /\ selected' =
             IF tasks = <<>> THEN selected
             ELSE IF selected = None THEN Len(tasks) - 1
             ELSE IF last'.op = "select_newer"
                  THEN (selected + 1) % Len(tasks)
                  ELSE (selected + Len(tasks) - 1) % Len(tasks)]_vars

\* C7 witness: select_newer on the last of three tasks wrapped to index 0.
C7_Witness ==
    /\ last.op = "select_newer"
    /\ last.sel = 2
    /\ last.len = 3
    /\ selected = 0

C9_ModifierRelease ==
    [][(last'.op = "KeyRelease" /\ last'.mod) =>
        IF is_mapped
        THEN /\ is_mapped' = FALSE
             /\ last'.req = IF selected # None THEN tasks[selected + 1].wid ELSE NoWid
             /\ IF selected # None /\ last'.ok
                THEN tasks' = MovedToEnd(tasks, selected) /\ selected' = Len(tasks) - 1
                ELSE tasks' = tasks /\ selected' = selected
        ELSE /\ last'.req = NoWid
             /\ tasks' = tasks /\ selected' = selected /\ is_mapped' = is_mapped]_vars

\* C9 witness: the modifier was released with the first of two tasks
\* selected and the focus request failed: unmapped, selection still at 0.
C9_Witness ==
    /\ last.op = "KeyRelease"
    /\ last.mod
    /\ last.mapped
    /\ last.req # NoWid
    /\ ~last.ok
    /\ last.sel = 0
    /\ Len(tasks) = 2
    /\ selected = 0
    /\ tasks[1].wid = last.req
    /\ ~is_mapped

C11_NoEmptyOverlay ==
    (last.op = "EndCycle" /\ tasks = <<>>) => ~is_mapped

\* C12: the cycle sends exactly one frame when, after the drain, the overlay
\* is mapped, the registry is non-empty and one of the five dirty flags is
\* set (size counts because a non-empty registry has a geometry); otherwise
\* it sends none, so none while the overlay is unmapped; and the next cycle
\* starts with the five flags false.
C12_FrameOncePerCycle ==
    [][last'.op = "EndCycle" =>
        /\ last'.sent =
             IF /\ is_mapped
                /\ tasks # <<>>
                /\ (title_changed \/ icons_changed \/ focus_changed
                       \/ window_changed \/ size_changed)
             THEN 1 ELSE 0
        /\ (~is_mapped => last'.sent = 0)
        /\ ~title_changed' /\ ~icons_changed' /\ ~size_changed'
        /\ ~focus_changed' /\ ~window_changed']_vars

\* C12 witness: a cycle that ended with the overlay mapped on two tasks has
\* sent one frame, and the flags are false again.
C12_Witness ==
    /\ last.op = "EndCycle"
    /\ last.sent = 1
    /\ is_mapped
    /\ Len(tasks) = 2
    /\ ~focus_changed /\ ~size_changed

\* C13: a press of quit with the modifier while the overlay is mapped unmaps
\* it, keeps the tasks and their order, sends no request, and sets the
\* selection to the last index when an active window is reported and the
\* registry is non-empty, to absent when none is reported; while the overlay
\* is not mapped it changes nothing.
C13_Quit ==
    [][(last'.op = "KeyPress" /\ last'.mod /\ last'.key = "quit") =>
        /\ tasks' = tasks
        /\ last'.req = NoWid
        /\ UNCHANGED flagvars
        /\ IF is_mapped
           THEN /\ is_mapped' = FALSE
                /\ selected' = IF ~last'.ok THEN None
                               ELSE IF tasks # <<>> THEN Len(tasks) - 1
                               ELSE selected
           ELSE selected' = selected /\ is_mapped' = is_mapped]_vars

\* C13 witness: quit was pressed while the overlay was mapped with the first
\* of two tasks selected and an active window reported: the last is selected.
C13_Witness ==
    /\ last.op = "KeyPress"
    /\ last.mod
    /\ last.key = "quit"
    /\ last.ok
    /\ last.mapped
    /\ last.sel = 0
    /\ last.len = 2
    /\ selected = 1
    /\ ~is_mapped

\* C14: a press of kill with the modifier while the overlay is mapped sends
\* a close request for the selected task, none when nothing is selected, and
\* changes neither the tasks, the selection nor the mapped flag; only a
\* request that succeeded sets dirty flags (focus and size).  While the
\* overlay is not mapped it sends no request.
C14_Kill ==
    [][(last'.op = "KeyPress" /\ last'.mod /\ last'.key = "kill") =>
        /\ tasks' = tasks
        /\ selected' = selected
        /\ is_mapped' = is_mapped
        /\ last'.req = IF is_mapped /\ selected # None
                       THEN tasks[selected + 1].wid ELSE NoWid
        /\ UNCHANGED <<title_changed, icons_changed, window_changed>>
        /\ IF is_mapped /\ selected # None /\ last'.ok
           THEN focus_changed' /\ size_changed'
           ELSE UNCHANGED <<focus_changed, size_changed>>]_vars

\* C14 witness: kill was pressed while the overlay was mapped with the first
\* of two tasks selected, and the request for it succeeded.
C14_Witness ==
    /\ last.op = "KeyPress"
    /\ last.mod
    /\ last.key = "kill"
    /\ last.ok
    /\ last.mapped
    /\ last.sel = 0
    /\ last.len = 2
    /\ last.req = tasks[1].wid
    /\ selected = 0
    /\ size_changed
    /\ is_mapped

\* C15: in every state of the registry the descending view is the reverse
\* of the ascending view, its selection index is length - 1 - i when the
\* stored selection is i and absent when that is absent, and both indices
\* name the same task.
C15_Views ==
    LET asc == list_ascending(self)
        desc == list_descending(self)
        n == Len(tasks)
    IN  /\ asc[1] = tasks
        /\ asc[2] = selected
        /\ Len(desc[1]) = n
        /\ \A k \in 1..n : desc[1][k] = tasks[n + 1 - k]
        /\ desc[2] = IF selected = None THEN None ELSE n - 1 - selected
        /\ selected # None =>
              /\ desc[2] \in 0..(n - 1)
              /\ desc[1][desc[2] + 1] = asc[1][selected + 1]

\* C15 witness: three tasks with the oldest selected, which the descending
\* view shows at index 2.
C15_Witness ==
    /\ Len(tasks) = 3
    /\ selected = 0
    /\ list_descending(self)[2] = 2
    /\ list_descending(self)[1][3] = tasks[1]

\* C16: a step that is not a refresh leaves every entry of the icon cache
\* as it is, so a lookup gives the same bitmap before and after it; and
\* cache calls refresh only for tasks whose class pair had no entry, once
\* per class pair, however many tasks share it.
C16_Memoized ==
    [][last'.op # "refresh" =>
        /\ \A c \in Classes : icons[c] # None => icons'[c] = icons[c]
        /\ \A i \in 1..Len(tasks') :
              get(icons, tasks'[i]) # None => get(icons', tasks'[i]) = get(icons, tasks'[i])
        /\ last'.op = "cache" =>
              /\ \A k \in 1..Len(last'.resolved) :
                    \E i \in 1..Len(tasks) :
                       /\ tasks[i].wid = last'.resolved[k]
                       /\ icons[tasks[i].class] = None
                       /\ \A j \in 1..(i - 1) : tasks[j].class # tasks[i].class
              /\ \A i \in 1..Len(tasks) : icons'[tasks[i].class] # None]_vars

\* C16 witness: cache ran on two tasks of one class pair whose entry was a
\* bitmap of an earlier resolution, and resolved nothing.
C16_Witness ==
    /\ last.op = "cache"
    /\ last.resolved = <<>>
    /\ Len(tasks) = 2
    /\ tasks[1].class = tasks[2].class
    /\ icons[tasks[1].class] \in Bitmaps

\* C17: refresh stores, for the class pair of its task, the bitmap of the
\* first source that succeeds in the order window icon, theme icon, cached
\* icon of the parent's class pair, empty icon; it calls no source after
\* the one that succeeded; it leaves an entry whatever the entry was before
\* and touches no other entry.
C17_RefreshOrder ==
    [][last'.op = "refresh" =>
        LET a == last'.ans
            task == get_task_by_id(self, last'.wid)[1]
            order == <<"net_wm_icon", "hicolor", "parent">>
            first == IF a.net # None THEN 1
                     ELSE IF a.hicolor # None THEN 2
                     ELSE 3
        IN  /\ icons'[task.class] # None
            /\ a.net # None => icons'[task.class] = a.net
            /\ (a.net = None /\ a.hicolor # None) => icons'[task.class] = a.hicolor
            /\ (a.net = None /\ a.hicolor = None) =>
                  icons'[task.class] =
                     IF a.parent # None /\ icons[a.parent] # None
                     THEN icons[a.parent] ELSE EmptyIcon
            /\ last'.tried = SubSeq(order, 1, first)
            /\ \A c \in Classes \ {task.class} : icons'[c] = icons[c]]_vars

\* C17 witness: window and theme both had an icon, and refresh has stored
\* the icon of the window for the class pair of its task without
\* looking into the theme.
C17_Witness ==
    /\ last.op = "refresh"
    /\ last.ans.net = 1
    /\ last.ans.hicolor = 2
    /\ last.tried = <<"net_wm_icon">>
    /\ \E i \in 1..Len(tasks) : tasks[i].wid = last.wid /\ icons[tasks[i].class] = 1

\* C19 as stated: when the configured per-task size times the task count
\* exceeds the screen extent minus the two borders, the per-task extent is
\* (screen extent - 2 * border width) / task count; so 3 tasks in rows of
\* height 64 on a screen 150 high with border width 1 get (150 - 2) / 3 each.
C19_ShrinkRule ==
    (/\ last.op = "compute_window_geometry"
     /\ last.n >= 1
     /\ last.size.kind = "Absolute") =>
        LET avail == last.screen_size - 2 * last.conf.border_width IN
        /\ Px(last.size.n) * last.n > avail => last.task_size * last.n = avail
        /\ (/\ last.n = 3
            /\ last.conf.layout = "Rows"
            /\ last.size.n = 64
            /\ last.screen.height_in_pixels = 150
            /\ last.conf.border_width = Px(1)) => last.task_size * 3 = Px(150 - 2)

\* C20 as stated: the rectangle a is placed on the screen b at the corner,
\* edge midpoint or centre its anchor names; West and East centre it
\* vertically, North and South horizontally; and a rectangle no larger than
\* the screen lies inside the screen.
C20_Anchors ==
    last.op = "resolve" =>
        LET loc == last.location
            aw == last.a[1]
            ah == last.a[2]
            bw == last.b[1]
            bh == last.b[2]
            x == last.xy[1]
            y == last.xy[2]
        IN  /\ loc \in {"NorthWest", "West", "SouthWest"} => x = 0
            /\ loc \in {"North", "Center", "South"} => 2 * x = bw - aw
            /\ loc \in {"NorthEast", "East", "SouthEast"} => x = bw - aw
            /\ loc \in {"NorthWest", "North", "NorthEast"} => y = 0
            /\ loc \in {"West", "Center", "East"} => 2 * y = bh - ah
            /\ loc \in {"SouthWest", "South", "SouthEast"} => y = bh - ah
            /\ (aw <= bw /\ ah <= bh) =>
                  (0 <= x /\ x + aw <= bw /\ 0 <= y /\ y + ah <= bh)

\* C18 as stated: draw_icon with the 0 x 0 icon ends without a panic and
\* leaves the frame as the background and the outline of the icon's area
\* made it: no pixel of an icon is painted.
C18_EmptyIconDraws ==
    (/\ last.op = "draw_icon"
     /\ last.icon.width = 0
     /\ last.icon.height = 0) =>
        /\ last.frame.fault = ""
        /\ last.frame.buf = last.ground.buf

\* C21: an error event ends the event loop if and only if it names a failed
\* GrabKey request; any other error event leaves the registry, the
\* selection, the mapped flag, the dirty flags and the icon cache as they
\* were, and the loop polls for the next event; once main has returned no
\* step follows.
C21_ErrorEvents ==
    [][/\ pc # "exit"
       /\ last'.op = "Error" =>
             /\ (pc' = "exit") <=> (last'.request = "GrabKey")
             /\ last'.request # "GrabKey" =>
                   /\ pc' = "drain"
                   /\ UNCHANGED <<tasks, selected, is_mapped, flagvars, icons>>]_vars

\* C21 witness: an error of another request arrived while the overlay was
\* mapped on two tasks with the focus flag set, and the loop goes on with
\* all of it in place.
C21_Witness ==
    /\ last.op = "Error"
    /\ last.request = "ChangeProperty"
    /\ pc = "drain"
    /\ is_mapped
    /\ Len(tasks) = 2
    /\ selected = 0
    /\ focus_changed

\* C22: update_title with a tracked id changes the title of the task with
\* that id and nothing else: the order of the tasks, every window id, every
\* class pair, every other title and the selection stay; with an untracked
\* id it changes nothing.
C22_UpdateTitle ==
    [][last'.op = "update_title" =>
        /\ selected' = selected
        /\ Len(tasks') = Len(tasks)
        /\ \A i \in 1..Len(tasks) :
              /\ tasks'[i].wid = tasks[i].wid
              /\ tasks'[i].class = tasks[i].class
              /\ tasks'[i].title = IF tasks[i].wid = last'.wid
                                   THEN last'.title ELSE tasks[i].title
        /\ last'.wid \notin WidsOf(tasks) => tasks' = tasks]_vars

\* C22 witness: of two tasks with different class pairs the second was
\* given the title 2; the first, which is selected, still has the title 1.
C22_Witness ==
    /\ last.op = "update_title"
    /\ last.title = 2
    /\ last.sel = 0
    /\ Len(tasks) = 2
    /\ tasks[2].wid = last.wid
    /\ tasks[2].title = 2
    /\ tasks[1].title = 1
    /\ tasks[1].class # tasks[2].class
    /\ selected = 0

\* the glyph the first font that has the character c makes of it, the
\* blank glyph when that font rasterizes it as an empty bitmap
FirstFontGlyph(fonts, c) ==
    LET glyph == rasterize(c, fonts, font_for_char(fonts, c)) IN
    IF glyph.empty THEN RasterizedGlyph_default ELSE glyph

\* C23: over any sequence of set_layout calls, cache looks up and
\* rasterizes each non-ASCII character at most once and no ASCII character;
\* a character that no font has, or that its first font rasterizes as an
\* empty bitmap, is stored as the blank glyph by the call that first passes
\* it; a stored entry is never changed or removed; and get finds a glyph
\* for every character that was passed through set_layout.
C23_GlyphsMemoized ==
    [][last'.op = "set_layout" =>
        /\ \A c \in Chars :
              /\ tr_log'.looked[c] <= 1
              /\ tr_log'.rasterized[c] <= tr_log'.looked[c]
              /\ is_ascii(c) => tr_log'.looked[c] = 0
              /\ c \in DOMAIN tr.others =>
                    /\ c \in DOMAIN tr'.others
                    /\ tr'.others[c] = tr.others[c]
                    /\ tr_log'.looked[c] = tr_log.looked[c]
                    /\ tr_log'.rasterized[c] = tr_log.rasterized[c]
        /\ \A c \in Range(last'.text) :
              /\ ~is_ascii(c) => c \in DOMAIN tr'.others
              /\ (/\ ~is_ascii(c)
                  /\ c \notin DOMAIN tr.others
                  /\ \/ font_for_char(tr.fonts, c) = None
                     \/ rasterize(c, tr.fonts, font_for_char(tr.fonts, c)).empty) =>
                    tr'.others[c] = RasterizedGlyph_default
        /\ \A c \in tr_log'.passed : TextRenderer_get(tr', c) # <<>>
        /\ tr_log.passed \subseteq tr_log'.passed]_vars

\* C23 witness: the second call that passes the emoji, with fonts of which
\* the first to have it rasterizes it as an empty bitmap: it is stored
\* blank and was looked up and rasterized once.
C23_Witness ==
    /\ last.op = "set_layout"
    /\ last.text = <<128512, 128512>>
    /\ tr.others[128512] = RasterizedGlyph_default
    /\ tr_log.looked[128512] = 1
    /\ tr_log.rasterized[128512] = 1
    /\ font_for_char(tr.fonts, 128512) = 1
    /\ 8226 \in tr_log.passed

\* C24 as stated: for every non-ASCII character that was passed through
\* set_layout and that some font has a glyph for, the code points 128 to
\* 255 included, the glyph get returns is the one rasterized from the first
\* font in priority order that has a glyph for it.
C24_FirstFontGlyph ==
    \A c \in tr_log.passed :
        (~is_ascii(c) /\ font_for_char(tr.fonts, c) # None) =>
            TextRenderer_get(tr, c) = <<FirstFontGlyph(tr.fonts, c)>>

\* d - off lies in 0 .. n - 1, evaluated inside the range of the integers
InWindow(d, off, n) ==
    IF off >= 0 THEN d >= off /\ d - off <= n - 1
    ELSE n >= 1 /\ d <= off + (n - 1)

\* C25 as stated: blit_frame(src, x, y) ends without a fault for any
\* offset; afterwards the destination pixel (dx, dy) equals the source
\* pixel (dx - x, dy - y) when 0 <= dx - x < src width and 0 <= dy - y < src
\* height, and is unchanged otherwise; so a source that lies outside the
\* destination leaves it unchanged.
C25_ClippedCopy ==
    last.op = "blit_frame" =>
        LET src == last.src
            dst == last.dst
            x == last.x
            y == last.y
        IN  /\ last.frame.fault = ""
            /\ last.frame.width = dst.width
            /\ last.frame.height = dst.height
            /\ \A dx \in 0..(dst.width - 1), dy \in 0..(dst.height - 1) :
                  last.frame.buf[dy * dst.width + dx + 1] =
                     IF InWindow(dx, x, src.width) /\ InWindow(dy, y, src.height)
                     THEN src.buf[(dy - y) * src.width + (dx - x) + 1]
                     ELSE dst.buf[dy * dst.width + dx + 1]

\* C26: on a registry of two or more tasks with the last one selected, the
\* sequence next key press, modifier release with a successful focus
\* request, next key press, modifier release with a successful focus
\* request, with no other event in between, leaves the tasks in their
\* original order with the original selection; after the first release the
\* task that was second-to-last is the last and selected one, the one that
\* was last is second-to-last, and the others are where they were.
C26_AltTabToggle ==
    LET orig == last.chain.tasks
        n == Len(orig)
    IN  /\ last.chain.stage = 2 =>
              /\ Len(tasks) = n
              /\ tasks[n] = orig[n - 1]
              /\ tasks[n - 1] = orig[n]
              /\ \A i \in 1..(n - 2) : tasks[i] = orig[i]
              /\ selected = n - 1
        /\ last.chain.stage = 4 =>
              /\ tasks = orig
              /\ selected = last.chain.sel
              /\ selected = n - 1

\* C26 witness: the second release has ended the sequence on three tasks.
C26_Witness ==
    /\ last.op = "KeyRelease"
    /\ last.chain.stage = 4
    /\ Len(last.chain.tasks) = 3
    /\ WidSeq(tasks) = <<1, 2, 3>>
    /\ selected = 2
    /\ ~is_mapped

\* C27: when diff_update removes at least one task and the window list still
\* holds the selected task's window, the selection afterwards designates the
\* task with the same window id as before.
C27_SelectionKeepsTask ==
    [][(/\ last'.op = "diff_update"
        /\ selected # None
        /\ tasks[selected + 1].wid \in Range(last'.wids)
        /\ \E i \in 1..Len(tasks) : tasks[i].wid \notin Range(last'.wids))
       => (/\ selected' # None
           /\ tasks'[selected' + 1].wid = tasks[selected + 1].wid)]_vars

\* C28: whenever a cycle ends with a frame submitted, the registry has a
\* selection and draw_list has painted the frame in that cycle.
C28_FramesArePainted ==
    (last.op = "EndCycle" /\ last.sent = 1) => (selected # None /\ last.painted)

\* ---- SpecCache: the handlers that track windows and fill the icon cache,
\* on windows of any class pair ----
StartupAnyClass == StartupOn(Classes)
ClientListAnyClass == ClientListOn(Classes)

NextCache ==
    \/ StartupAnyClass
    \/ ClientListAnyClass
    \/ IconChanged
    \/ KeyPress
    \/ EndCycle

SpecCache == Init /\ [][NextCache]_vars

\* C29: after every step the icon cache has an entry for the class pair of
\* every tracked task, no draw ends in the unwrap of IconCache::get, and no
\* step removes an entry of the cache.
C29_IconCacheComplete ==
    [][/\ \A i \in 1..Len(tasks') : get(icons', tasks'[i]) # None
       /\ last'.fault # "called Option::unwrap() on a None value"
       /\ \A c \in Classes : icons[c] # None => icons'[c] # None]_vars

\* C29 witness: a frame was drawn for the one task left after a window of
\* the other class pair went away, and the cache has kept both entries.
C29_Witness ==
    /\ last.op = "EndCycle"
    /\ last.sent = 1
    /\ last.painted
    /\ Len(tasks) = 1
    /\ \A c \in Classes : icons[c] # None

\* C30: whenever a cycle ends with a frame drawn and sent, the width and
\* height of the frame are those of the geometry computed for the number of
\* tasks the registry has at that moment.
C30_FrameFitsTasks ==
    (last.op = "EndCycle" /\ last.sent = 1) =>
        LET g == compute_window_geometry(main_conf, main_screen, Len(tasks)) IN
        /\ g # <<>>
        /\ geometry = g[1]
        /\ main_frame = Frame_size(AsU32(g[1].w), AsU32(g[1].h))

\* C30 witness: a frame was painted and sent for two tasks in a cycle that
\* changed the task count and resized the frame.
C30_Witness ==
    /\ last.op = "EndCycle"
    /\ last.sent = 1
    /\ last.painted
    /\ last.resized
    /\ Len(tasks) = 2
    /\ main_frame = Frame_size(AsU32(geometry.w), AsU32(geometry.h))


====
